---- MODULE Spec2Model ----
(***************************************************************************)
(* Token lifecycle of the Fitbit client: the token file (token-storage.js) *)
(* and one apiRequest call at a time (fitbit-client.js), cut at each await *)
(* of a fetch.  The token endpoint and the resource endpoint answer any    *)
(* status with any body; a body is JSON or not.                            *)
(***************************************************************************)
EXTENDS Integers, Sequences, FiniteSets, TLC

VARIABLES
    tokenFile,      \* tokens.json: NoFile, or the object stored in it
    clock,          \* Date.now()
    nextTok,        \* the next token value the provider issues
    pc,             \* where the apiRequest call is suspended
    http,           \* the requests this call has sent, in order
    responses,      \* the responses this call has received, in order
    result,         \* how the call ended: a returned value or a thrown error
    writes,         \* saveTokens writes completed during this call
    startFile,      \* tokenFile when the call began
    startClock,     \* Date.now() when the call began
    call,           \* the function called and its argument
    writeFailures,  \* writes and deletions of the token file that failed during
                    \* this call
    codeVerifier,   \* the PKCE verifier of the authorization server
    lastCall        \* the call that returned before this one, and how it ended

vars == <<tokenFile, clock, nextTok, pc, http, responses, result, writes,
          startFile, startClock, call, writeFailures, codeVerifier, lastCall>>

-----------------------------------------------------------------------------
(* Bounds of the model *)

\* the provider issues token values 1 .. MaxTok
MaxTok == 3
\* the clock advances at most MaxTicks times
MaxTicks == 3
\* the start page of the authorization server is visited at most MaxVisits times
MaxVisits == 2

-----------------------------------------------------------------------------
(* JavaScript values *)

\* null / a missing file: the empty object
NoFile == <<>>
null == <<>>

\* a token file whose text is not JSON: what a write that failed midway leaves
Corrupt == [corrupt |-> TRUE]

\* obj.f, with undefined read as 0 (both are falsy, and no token or time is 0)
Get(obj, f) == IF f \in DOMAIN obj THEN obj[f] ELSE 0

\* !obj.f is false
Truthy(obj, f) == f \in DOMAIN obj /\ obj[f] # 0

\* response.ok
Ok(status) == status >= 200 /\ status <= 299

\* A body: JSON text that parses to value, or text that does not parse
JsonBody(v) == [json |-> TRUE, value |-> v]
NotJson == [json |-> FALSE, value |-> "<html>"]

-----------------------------------------------------------------------------
(* token-storage.js *)

\* 5 * 60 * 1000
bufferTime == 300000

\* the lifetime the provider gives an access token, in seconds
Lifetime == 60 * 60

\* one step of the clock: half the buffered lifetime, so that two steps after
\* a save Date.now() equals expiresAt - bufferTime exactly
TickMs == (Lifetime * 1000 - bufferTime) \div 2

StartClock == TickMs

TokenFields == {"access_token", "refresh_token", "token_type", "expires_in",
                "scope", "user_id"}

\* loadTokens of a file: null when it is missing and when JSON.parse throws
loadTokensOf(file) == IF file = NoFile \/ file = Corrupt THEN null ELSE file

loadTokens == loadTokensOf(tokenFile)

\* saveTokens writing { ...tokens, saved_at }
saveTokensData_Spread(tokens, now) ==
    [f \in (DOMAIN tokens) \cup {"saved_at"} |->
        IF f = "saved_at" THEN now ELSE tokens[f]]

\* the object saveTokens writes: the six fields of tokens that are defined
\* (JSON.stringify drops an undefined field) and saved_at
saveTokensData(tokens, now) ==
    [f \in ((DOMAIN tokens) \cap TokenFields) \cup {"saved_at"} |->
        IF f = "saved_at" THEN now ELSE tokens[f]]

\* isTokenExpired comparing with > in line 59
isTokenExpiredOf_Strict(tokens, now) ==
    IF tokens = null \/ ~Truthy(tokens, "saved_at") \/ ~Truthy(tokens, "expires_in")
    THEN TRUE
    ELSE LET expiresAt == tokens.saved_at + (tokens.expires_in * 1000)
         IN  now > (expiresAt - bufferTime)

\* isTokenExpired without the five minute buffer
isTokenExpiredOf_NoBuffer(tokens, now) ==
    IF tokens = null \/ ~Truthy(tokens, "saved_at") \/ ~Truthy(tokens, "expires_in")
    THEN TRUE
    ELSE now >= tokens.saved_at + (tokens.expires_in * 1000)

isTokenExpiredOf(tokens, now) ==
    IF tokens = null \/ ~Truthy(tokens, "saved_at") \/ ~Truthy(tokens, "expires_in")
    THEN TRUE
    ELSE LET expiresAt == tokens.saved_at + (tokens.expires_in * 1000)
         IN  now >= (expiresAt - bufferTime)

isTokenExpired == isTokenExpiredOf(loadTokens, clock)

-----------------------------------------------------------------------------
(* fitbit-client.js: errors and results *)

Pending == [kind |-> "pending"]
Return(v) == [kind |-> "return", value |-> v]

FitbitApiError(message, statusCode, errors) ==
    [kind |-> "throw", name |-> "FitbitApiError", message |-> message,
     statusCode |-> statusCode, errors |-> errors]

FitbitAuthError(message) ==
    [kind |-> "throw", name |-> "FitbitAuthError", message |-> message]

\* what response.json() throws on a body that is not JSON
SyntaxError == [kind |-> "throw", name |-> "SyntaxError", message |-> "Unexpected token"]

\* what fs.writeFileSync throws, rethrown by saveTokens
WriteError == [kind |-> "throw", name |-> "Error", message |-> "write failed"]

Threw(r, name) == r.kind = "throw" /\ r.name = name

TokenRequest(refresh_token) == [to |-> "token", cred |-> refresh_token]
ResourceRequest(access_token) == [to |-> "resource", cred |-> access_token]

\* the position in http of the fetch of line 94, 0 before it is sent
FirstResourceSent ==
    LET at == {i \in 1..Len(http) : http[i].to = "resource"}
    IN  IF at = {} THEN 0 ELSE CHOOSE i \in at : \A j \in at : i <= j

-----------------------------------------------------------------------------
(* What the endpoints may answer *)

Statuses == {200, 400, 401, 429, 500}

\* bodies of a resource response, and of a token endpoint error response
Bodies == {JsonBody("b1"), JsonBody("b2"), NotJson}

\* the token sets the provider may issue with token value n: the refresh token
\* and the lifetime may be left out
TokenSets(n) ==
    { [f \in {"access_token", "token_type", "user_id"} \cup opt |->
          CASE f = "access_token"  -> n
            [] f = "refresh_token" -> n
            [] f = "expires_in"    -> Lifetime
            [] f = "token_type"    -> "Bearer"
            [] f = "user_id"       -> "U1"] :
      opt \in SUBSET {"refresh_token", "expires_in"} }

ResourceResponses == [status : Statuses, body : Bodies]

TokenResponses ==
    [status : Statuses \ {200}, body : Bodies]
    \cup (IF nextTok <= MaxTok
          THEN {[status |-> 200, body |-> JsonBody(t)] : t \in TokenSets(nextTok)}
          ELSE {})
    \cup {[status |-> 200, body |-> NotJson]}

-----------------------------------------------------------------------------
(* fitbit-client.js: refreshAccessToken *)

\* refreshAccessToken without the check of line 30
refreshAccessTokenBegin_NoCheck ==
    Return(TokenRequest(Get(loadTokens, "refresh_token")))

\* refreshAccessToken sending the refresh token that was on file when the
\* call began
refreshAccessTokenBegin_TokensOfStart ==
    LET tokens == loadTokensOf(startFile)
    IN  IF tokens = null \/ ~Truthy(tokens, "refresh_token")
        THEN FitbitAuthError("No refresh token available")
        ELSE Return(TokenRequest(tokens.refresh_token))

\* lines 28-46: up to the await of the fetch
refreshAccessTokenBegin ==
    LET tokens == loadTokens
    IN  IF tokens = null \/ ~Truthy(tokens, "refresh_token")
        THEN FitbitAuthError("No refresh token available")
        ELSE Return(TokenRequest(tokens.refresh_token))

\* response.status === 401 || response.status === 400
IsAuthStatus(status) == status = 401 \/ status = 400

\* lines 48-56: the error thrown for a response that is not ok
refreshFailure(response) ==
    IF ~response.body.json
    THEN SyntaxError
    ELSE IF IsAuthStatus(response.status)
         THEN FitbitAuthError("Token refresh failed")
         ELSE FitbitApiError("Token refresh failed", response.status,
                             response.body.value)

\* refreshAccessToken going on after a saveTokens that did not rethrow
refreshAccessTokenEnd_WriteErrorSwallowed(response, writeOk) ==
    IF ~Ok(response.status)
    THEN refreshFailure(response)
    ELSE IF ~response.body.json
         THEN SyntaxError
         ELSE Return(response.body.value)

\* lines 48-62: from the response on; writeOk is whether writeFileSync succeeds
refreshAccessTokenEnd(response, writeOk) ==
    IF ~Ok(response.status)
    THEN refreshFailure(response)
    ELSE IF ~response.body.json
         THEN SyntaxError
         ELSE IF ~writeOk
              THEN WriteError
              ELSE Return(response.body.value)

\* the catch rethrowing whatever it caught
catchRefreshError_Rethrow(refreshError) == refreshError

\* lines 125-130: the catch around the refresh and the retry
catchRefreshError(refreshError) ==
    IF refreshError.name = "FitbitAuthError"
    THEN refreshError
    ELSE FitbitAuthError("Authentication failed")

\* lines 133-138, 119-124: the outcome of a response that is not a first 401
responseOutcome(response) ==
    IF ~Ok(response.status)
    THEN IF ~response.body.json
         THEN SyntaxError
         ELSE FitbitApiError("API request failed", response.status,
                             response.body.value)
    ELSE IF ~response.body.json
         THEN SyntaxError
         ELSE Return(response.body.value)

-----------------------------------------------------------------------------
(* The state machine *)

Call(op, arg) == [op |-> op, arg |-> arg]

\* a call that has returned: what was called, how it ended, when it began
\* and the token file it found
Ended(c, r, at, file) ==
    [call |-> c, result |-> r, startClock |-> at, startFile |-> file]

Init ==
    /\ clock = StartClock
    /\ tokenFile \in {NoFile} \cup {saveTokensData(t, StartClock) : t \in TokenSets(1)}
    /\ nextTok = 2
    /\ pc = "idle"
    /\ http = <<>>
    /\ responses = <<>>
    /\ result = Pending
    /\ writes = 0
    /\ startFile = tokenFile
    /\ startClock = StartClock
    /\ call = Call("none", <<>>)
    /\ writeFailures = 0
    /\ codeVerifier = 0
    /\ lastCall = Ended(Call("none", <<>>), Pending, StartClock, tokenFile)

Finished(r) ==
    /\ pc' = "done"
    /\ result' = r

\* saveTokens writing the new fields over the record it finds
Saved_Merge(newTokens) ==
    /\ tokenFile' = LET old == loadTokens
                        new == saveTokensData(newTokens, clock)
                    IN  [f \in (DOMAIN old) \cup (DOMAIN new) |->
                            IF f \in DOMAIN new THEN new[f] ELSE old[f]]
    /\ writes' = writes + 1
    /\ UNCHANGED writeFailures

\* saveTokens(newTokens) succeeded
Saved(newTokens) ==
    /\ tokenFile' = saveTokensData(newTokens, clock)
    /\ writes' = writes + 1
    /\ UNCHANGED writeFailures

\* writeFileSync threw: the file is as it was (it could not be opened) or is
\* left truncated
NotSaved ==
    /\ tokenFile' \in {tokenFile, Corrupt}
    /\ writeFailures' = writeFailures + 1
    /\ UNCHANGED writes

\* saveTokens (token-storage.js, lines 27-44)
saveTokens(tokens, writeOk) ==
    IF writeOk THEN Saved(tokens) ELSE NotSaved

\* saveTokens reached before the check of response.ok: an error body holds
\* none of the six fields
refreshSaves_BeforeOkCheck(response, writeOk) ==
    IF response.body.json
    THEN saveTokens(IF Ok(response.status) THEN response.body.value ELSE <<>>, writeOk)
    ELSE UNCHANGED <<tokenFile, writes, writeFailures>>

\* lines 58-59: saveTokens is reached with the parsed body of an ok response
refreshSaves(response, writeOk) ==
    IF Ok(response.status) /\ response.body.json
    THEN saveTokens(response.body.value, writeOk)
    ELSE UNCHANGED <<tokenFile, writes, writeFailures>>

\* the provider has issued the token set this response carries
Issued(response) ==
    nextTok' = IF Ok(response.status) /\ response.body.json
               THEN nextTok + 1
               ELSE nextTok

\* getValidAccessToken without the check of line 71
getValidAccessTokenBegin_NoNullCheck ==
    IF isTokenExpired
    THEN refreshAccessTokenBegin
    ELSE Return(ResourceRequest(Get(loadTokens, "access_token")))

\* getValidAccessToken, lines 69-78, up to its first await: the error thrown, or
\* the request sent (the refresh of line 77, or with a token that is not expired
\* the fetch of line 94 with tokens.access_token)
getValidAccessTokenBegin ==
    LET tokens == loadTokens
    IN  IF tokens = null
        THEN FitbitAuthError("No tokens found")
        ELSE IF isTokenExpired
             THEN refreshAccessTokenBegin
             ELSE Return(ResourceRequest(Get(tokens, "access_token")))

\* apiRequest is called and runs to its first await
ApiRequest ==
    /\ pc = "idle"
    /\ startFile' = tokenFile
    /\ startClock' = clock
    /\ responses' = <<>>
    /\ writes' = 0
    /\ writeFailures' = 0
    /\ call' = Call("apiRequest", <<>>)
    /\ UNCHANGED <<tokenFile, clock, nextTok, codeVerifier, lastCall>>
    /\ LET r == getValidAccessTokenBegin
       IN  IF r.kind = "throw"
           THEN /\ Finished(r)
                /\ http' = <<>>
           ELSE /\ pc' = IF r.value.to = "token" THEN "preRefresh" ELSE "request"
                /\ result' = Pending
                /\ http' = <<r.value>>

\* the refresh of getValidAccessToken (line 77) is answered with one of answers
PreRefreshAnswered(answers) ==
    /\ pc = "preRefresh"
    /\ \E response \in answers, writeOk \in BOOLEAN :
        /\ responses' = Append(responses, response)
        /\ Issued(response)
        /\ refreshSaves(response, writeOk)
        /\ LET r == refreshAccessTokenEnd(response, writeOk)
           IN  IF r.kind = "throw"
               THEN /\ Finished(r)
                    /\ UNCHANGED http
               ELSE /\ pc' = "request"
                    /\ result' = Pending
                    /\ http' = Append(http, ResourceRequest(Get(r.value, "access_token")))
    /\ UNCHANGED <<clock, startFile, startClock, call, codeVerifier, lastCall>>

\* the token endpoint answers the refresh of getValidAccessToken
PreRefreshResponse == PreRefreshAnswered(TokenResponses)

\* the resource endpoint answers the fetch of line 94
ResourceResponse ==
    /\ pc = "request"
    /\ \E response \in ResourceResponses :
        /\ responses' = Append(responses, response)
        /\ IF response.status = 401
           THEN LET r == refreshAccessTokenBegin
                IN  IF r.kind = "throw"
                    THEN /\ Finished(catchRefreshError(r))
                         /\ UNCHANGED http
                    ELSE /\ pc' = "retryRefresh"
                         /\ result' = Pending
                         /\ http' = Append(http, r.value)
           ELSE /\ Finished(responseOutcome(response))
                /\ UNCHANGED http
    /\ UNCHANGED <<tokenFile, clock, nextTok, writes, startFile, startClock,
                   call, writeFailures, codeVerifier, lastCall>>

\* the retry sent with the access token of the first attempt
retryRequest_StaleToken(newTokens) == http[FirstResourceSent]

\* lines 110-117: the retry, with newTokens.access_token
retryRequest(newTokens) == ResourceRequest(Get(newTokens, "access_token"))

\* the refresh of line 107 is answered with one of answers
RetryRefreshAnswered(answers) ==
    /\ pc = "retryRefresh"
    /\ \E response \in answers, writeOk \in BOOLEAN :
        /\ responses' = Append(responses, response)
        /\ Issued(response)
        /\ refreshSaves(response, writeOk)
        /\ LET r == refreshAccessTokenEnd(response, writeOk)
           IN  IF r.kind = "throw"
               THEN /\ Finished(catchRefreshError(r))
                    /\ UNCHANGED http
               ELSE /\ pc' = "retry"
                    /\ result' = Pending
                    /\ http' = Append(http, retryRequest(r.value))
    /\ UNCHANGED <<clock, startFile, startClock, call, codeVerifier, lastCall>>

\* the token endpoint answers the refresh of line 107
RetryRefreshResponse == RetryRefreshAnswered(TokenResponses)

\* the retry with `return await retryResponse.json()`: every error is caught
retryOutcome_Awaited(retryResponse) ==
    LET r == responseOutcome(retryResponse)
    IN  IF r.kind = "throw" THEN catchRefreshError(r) ELSE r

\* lines 119-124 inside the try: an error thrown while awaited is caught, the
\* promise of `return retryResponse.json()` is not awaited there
retryOutcome(retryResponse) ==
    LET r == responseOutcome(retryResponse)
    IN  IF ~Ok(retryResponse.status) /\ r.kind = "throw"
        THEN catchRefreshError(r)
        ELSE r

\* RetryResponse as it would be were the retry made by calling apiRequest
\* again: a 401 on the retry starts another refresh
RetryResponse_Again ==
    /\ pc = "retry"
    /\ \E response \in ResourceResponses :
        /\ responses' = Append(responses, response)
        /\ LET r == refreshAccessTokenBegin
           IN  IF response.status = 401 /\ r.kind = "return"
               THEN /\ pc' = "retryRefresh"
                    /\ result' = Pending
                    /\ http' = Append(http, r.value)
               ELSE /\ Finished(retryOutcome(response))
                    /\ UNCHANGED http
    /\ UNCHANGED <<tokenFile, clock, nextTok, writes, startFile, startClock,
                   call, writeFailures, codeVerifier, lastCall>>

\* the resource endpoint answers the retry of line 110
RetryResponse ==
    /\ pc = "retry"
    /\ \E response \in ResourceResponses :
        /\ responses' = Append(responses, response)
        /\ Finished(retryOutcome(response))
    /\ UNCHANGED <<tokenFile, clock, nextTok, http, writes, startFile, startClock,
                   call, writeFailures, codeVerifier, lastCall>>

\* the caller has the result; the next call may begin
Finish ==
    /\ pc = "done"
    /\ pc' = "idle"
    /\ http' = <<>>
    /\ responses' = <<>>
    /\ result' = Pending
    /\ writes' = 0
    /\ writeFailures' = 0
    /\ call' = Call("none", <<>>)
    /\ startFile' = tokenFile
    /\ startClock' = clock
    /\ UNCHANGED <<tokenFile, clock, nextTok, codeVerifier, lastCall>>

\* clearTokens (token-storage.js, lines 65-74): the file after it; an unlinkSync
\* that throws is caught and leaves the file
clearTokens(unlinkOk) ==
    IF tokenFile # NoFile /\ unlinkOk THEN NoFile ELSE tokenFile

\* clearTokens is called between two calls
ClearTokens ==
    /\ pc = "idle"
    /\ \E unlinkOk \in BOOLEAN :
        /\ tokenFile' = clearTokens(unlinkOk)
        /\ startFile' = tokenFile'
    /\ UNCHANGED <<clock, nextTok, pc, http, responses, result, writes, startClock,
                   call, writeFailures, codeVerifier, lastCall>>

\* time passes
Tick ==
    /\ clock < StartClock + MaxTicks * TickMs
    /\ clock' = clock + TickMs
    /\ UNCHANGED <<tokenFile, nextTok, pc, http, responses, result, writes,
                   startFile, startClock, call, writeFailures, codeVerifier, lastCall>>

Next ==
    \/ ApiRequest
    \/ PreRefreshResponse
    \/ ResourceResponse
    \/ RetryRefreshResponse
    \/ RetryResponse
    \/ Finish
    \/ ClearTokens
    \/ Tick

Spec == Init /\ [][Next]_vars

-----------------------------------------------------------------------------
(* refreshAccessToken called by itself: it is exported (fitbit-client.js,    *)
(* line 187)                                                               *)

\* refreshAccessToken is called and runs to its await
RefreshCall ==
    /\ pc = "idle"
    /\ call' = Call("refreshAccessToken", <<>>)
    /\ startFile' = tokenFile
    /\ startClock' = clock
    /\ responses' = <<>>
    /\ writes' = 0
    /\ writeFailures' = 0
    /\ UNCHANGED <<tokenFile, clock, nextTok, codeVerifier, lastCall>>
    /\ LET r == refreshAccessTokenBegin
       IN  IF r.kind = "throw"
           THEN /\ pc' = "refreshed"
                /\ result' = r
                /\ http' = <<>>
           ELSE /\ pc' = "refreshing"
                /\ result' = Pending
                /\ http' = <<r.value>>

\* the token endpoint answers; refreshAccessToken returns newTokens or throws
RefreshCallResponse ==
    /\ pc = "refreshing"
    /\ \E response \in TokenResponses, writeOk \in BOOLEAN :
        /\ responses' = Append(responses, response)
        /\ Issued(response)
        /\ refreshSaves(response, writeOk)
        /\ result' = refreshAccessTokenEnd(response, writeOk)
    /\ pc' = "refreshed"
    /\ UNCHANGED <<clock, http, startFile, startClock, call, codeVerifier, lastCall>>

\* the caller has the result of refreshAccessToken
RefreshCallFinish ==
    /\ pc = "refreshed"
    /\ pc' = "idle"
    /\ http' = <<>>
    /\ responses' = <<>>
    /\ result' = Pending
    /\ writes' = 0
    /\ writeFailures' = 0
    /\ call' = Call("none", <<>>)
    /\ startFile' = tokenFile
    /\ startClock' = clock
    /\ UNCHANGED <<tokenFile, clock, nextTok, codeVerifier, lastCall>>

NextExports ==
    \/ Next
    \/ RefreshCall
    \/ RefreshCallResponse
    \/ RefreshCallFinish

\* apiRequest and refreshAccessToken, one call at a time
SpecExports == Init /\ [][NextExports]_vars

-----------------------------------------------------------------------------
(* token-storage.js called by itself: loadTokens, saveTokens, isTokenExpired *)
(* and clearTokens are exported (lines 76-82) and synchronous               *)

\* what saveTokens is given: the token sets of the provider, one with a
\* lifetime of 0, and one with a field beyond the six and a saved_at of its own
StoreInputs ==
    TokenSets(1)
    \cup {[access_token |-> 2, token_type |-> "Bearer", user_id |-> "U1",
           expires_in |-> 0]}
    \cup {[access_token |-> 3, refresh_token |-> 3, token_type |-> "Bearer",
           user_id |-> "U1", expires_in |-> Lifetime, scope |-> "sleep",
           id_token |-> "x", saved_at |-> 1]}

\* Date.now() is the system clock: it may be set forward or back
StoreClocks == {StartClock + k * TickMs : k \in 0..MaxTicks}

\* the token file found at the start: none, one that does not parse, one
\* written by other hands without saved_at
StoreFiles ==
    {NoFile, Corrupt,
     [access_token |-> 1, refresh_token |-> 1, expires_in |-> Lifetime]}

InitStore ==
    /\ clock \in StoreClocks
    /\ tokenFile \in StoreFiles
    /\ nextTok = 2
    /\ pc = "idle"
    /\ http = <<>>
    /\ responses = <<>>
    /\ result = Pending
    /\ writes = 0
    /\ startFile = tokenFile
    /\ startClock = clock
    /\ call = Call("none", <<>>)
    /\ writeFailures = 0
    /\ codeVerifier = 0
    /\ lastCall = Ended(Call("none", <<>>), Pending, clock, tokenFile)

\* a function of token-storage.js is called; it runs to its end at once
StoreCalled(c) ==
    /\ pc = "idle"
    /\ pc' = "stored"
    /\ call' = c
    /\ startFile' = tokenFile
    /\ startClock' = clock
    /\ UNCHANGED <<clock, nextTok, http, responses, codeVerifier, lastCall>>

\* saveTokens(tokens), lines 27-44: returns undefined, or rethrows
StoreSave ==
    \E tokens \in StoreInputs, writeOk \in BOOLEAN :
        /\ StoreCalled(Call("saveTokens", tokens))
        /\ saveTokens(tokens, writeOk)
        /\ result' = IF writeOk THEN Return(<<>>) ELSE WriteError

\* loadTokens(), lines 10-21
StoreLoad ==
    /\ StoreCalled(Call("loadTokens", <<>>))
    /\ result' = Return(loadTokens)
    /\ UNCHANGED <<tokenFile, writes, writeFailures>>

\* isTokenExpired(loadTokens()), lines 50-60
StoreIsTokenExpired ==
    /\ StoreCalled(Call("isTokenExpired", loadTokens))
    /\ result' = Return(isTokenExpiredOf(loadTokens, clock))
    /\ UNCHANGED <<tokenFile, writes, writeFailures>>

\* clearTokens() with a catch that rethrows
StoreClear_Rethrow ==
    \E unlinkOk \in BOOLEAN :
        /\ StoreCalled(Call("clearTokens", <<>>))
        /\ tokenFile' = clearTokens(unlinkOk)
        /\ result' = IF tokenFile # NoFile /\ ~unlinkOk THEN WriteError ELSE Return(<<>>)
        /\ writeFailures' = IF tokenFile # NoFile /\ ~unlinkOk THEN 1 ELSE 0
        /\ UNCHANGED writes

\* clearTokens(), lines 65-74: the catch of line 71 only logs
StoreClear ==
    \E unlinkOk \in BOOLEAN :
        /\ StoreCalled(Call("clearTokens", <<>>))
        /\ tokenFile' = clearTokens(unlinkOk)
        /\ result' = Return(<<>>)
        /\ writeFailures' = IF tokenFile # NoFile /\ ~unlinkOk THEN 1 ELSE 0
        /\ UNCHANGED writes

\* the caller has the result of the function
StoreReturn ==
    /\ pc = "stored"
    /\ pc' = "idle"
    /\ lastCall' = Ended(call, result, startClock, startFile)
    /\ result' = Pending
    /\ writes' = 0
    /\ writeFailures' = 0
    /\ call' = Call("none", <<>>)
    /\ startFile' = tokenFile
    /\ startClock' = clock
    /\ UNCHANGED <<tokenFile, clock, nextTok, http, responses, codeVerifier>>

\* the system clock is set
SetClock ==
    /\ pc = "idle"
    /\ clock' \in StoreClocks \ {clock}
    /\ UNCHANGED <<tokenFile, nextTok, pc, http, responses, result, writes,
                   startFile, startClock, call, writeFailures, codeVerifier, lastCall>>

NextStore ==
    \/ StoreSave
    \/ StoreLoad
    \/ StoreIsTokenExpired
    \/ StoreClear
    \/ StoreReturn
    \/ SetClock

\* the token store, one call at a time
SpecStore == InitStore /\ [][NextStore]_vars

-----------------------------------------------------------------------------
(* The authorization server (part_001): the start page and the callback,    *)
(* one callback at a time                                                   *)

\* req.query of a callback: error ("" when missing) and code (0 when missing)
Queries == [error : {"", "access_denied"}, code : 0..MaxVisits]

\* the fetch of exchangeCodeForTokens, lines 69-82
ExchangeRequest(code) ==
    [to |-> "token", cred |-> code, code_verifier |-> codeVerifier]

\* res.status(status).send(...)
Reply(status) == [kind |-> "reply", status |-> status]

ExchangeError ==
    [kind |-> "throw", name |-> "Error", message |-> "Token exchange failed"]

\* exchangeCodeForTokens without the check of response.ok: an error body is
\* returned as the tokens, and holds none of the six fields
exchangeCodeForTokensEnd_NoOkCheck(response) ==
    IF ~response.body.json
    THEN SyntaxError
    ELSE Return(IF Ok(response.status) THEN response.body.value ELSE <<>>)

\* exchangeCodeForTokens from the response on, lines 84-89
exchangeCodeForTokensEnd(response) ==
    IF ~response.body.json
    THEN SyntaxError
    ELSE IF ~Ok(response.status)
         THEN ExchangeError
         ELSE Return(response.body.value)

\* app.get('/'), lines 93-98: a new verifier replaces the one kept
StartPage ==
    /\ codeVerifier < MaxVisits
    /\ codeVerifier' = codeVerifier + 1
    /\ UNCHANGED <<tokenFile, clock, nextTok, pc, http, responses, result, writes,
                   startFile, startClock, call, writeFailures, lastCall>>

\* app.get('/callback'), lines 119-140: up to the reply of 400 or to the await
Callback ==
    /\ pc = "idle"
    /\ \E query \in Queries :
        /\ call' = Call("callback", query)
        /\ IF query.error # "" \/ query.code = 0
           THEN /\ pc' = "replied"
                /\ result' = Reply(400)
                /\ http' = <<>>
           ELSE /\ pc' = "exchanging"
                /\ result' = Pending
                /\ http' = <<ExchangeRequest(query.code)>>
    /\ startFile' = tokenFile
    /\ startClock' = clock
    /\ responses' = <<>>
    /\ writes' = 0
    /\ writeFailures' = 0
    /\ UNCHANGED <<tokenFile, clock, nextTok, codeVerifier, lastCall>>

\* the token endpoint answers the exchange, lines 141-177
ExchangeResponse ==
    /\ pc = "exchanging"
    /\ \E response \in TokenResponses, writeOk \in BOOLEAN :
        /\ responses' = Append(responses, response)
        /\ Issued(response)
        /\ LET tokens == exchangeCodeForTokensEnd(response)
           IN  IF tokens.kind = "throw"
               THEN /\ result' = Reply(500)
                    /\ UNCHANGED <<tokenFile, writes, writeFailures>>
               ELSE /\ saveTokens(tokens.value, writeOk)
                    /\ result' = Reply(IF writeOk THEN 200 ELSE 500)
    /\ pc' = "replied"
    /\ UNCHANGED <<clock, http, startFile, startClock, call, codeVerifier, lastCall>>

\* the browser has the reply
CallbackReplied ==
    /\ pc = "replied"
    /\ pc' = "idle"
    /\ http' = <<>>
    /\ responses' = <<>>
    /\ result' = Pending
    /\ writes' = 0
    /\ writeFailures' = 0
    /\ call' = Call("none", <<>>)
    /\ startFile' = tokenFile
    /\ startClock' = clock
    /\ UNCHANGED <<tokenFile, clock, nextTok, codeVerifier, lastCall>>

NextAuth ==
    \/ StartPage
    \/ Callback
    \/ ExchangeResponse
    \/ CallbackReplied
    \/ Tick

\* the authorization server
SpecAuth == Init /\ [][NextAuth]_vars


\* the file holds a record with a refresh token
HasRefreshToken(file) ==
    /\ file # NoFile
    /\ file # Corrupt
    /\ "refresh_token" \in DOMAIN file
    /\ file.refresh_token # 0

-----------------------------------------------------------------------------
(* A provider that rotates refresh tokens: the refresh token it accepts is  *)
(* the one it issued last, nextTok - 1                                      *)

\* what the rotating token endpoint answers the refresh in flight: presented
\* with the refresh token it accepts, a new token set with a new refresh
\* token, or an error that changes nothing; presented with any other, a refusal
RotatingResponses ==
    IF http = <<>> \/ http[Len(http)].cred # nextTok - 1
    THEN [status : {400, 401}, body : {JsonBody("b1")}]
    ELSE [status : Statuses \ {200}, body : Bodies]
         \cup (IF nextTok <= MaxTok
               THEN {[status |-> 200, body |-> JsonBody(t)] :
                        t \in {u \in TokenSets(nextTok) : "refresh_token" \in DOMAIN u}}
               ELSE {})

\* a record is on file and holds the refresh token the provider accepts
InitRotating ==
    /\ Init
    /\ HasRefreshToken(tokenFile)

PreRefreshRotating == PreRefreshAnswered(RotatingResponses)

RetryRefreshRotating == RetryRefreshAnswered(RotatingResponses)

NextRotating ==
    \/ ApiRequest
    \/ PreRefreshRotating
    \/ ResourceResponse
    \/ RetryRefreshRotating
    \/ RetryResponse
    \/ Finish
    \/ Tick

\* sequential apiRequest calls against the rotating provider
SpecRotating == InitRotating /\ [][NextRotating]_vars

-----------------------------------------------------------------------------
(* The history of one call *)

\* the kinds of the requests sent, in order
Kinds == [i \in 1..Len(http) |-> http[i].to]

NumTo(kind) == Cardinality({i \in 1..Len(http) : http[i].to = kind})

FirstResource == FirstResourceSent

\* the record is expired at the start of the call, as section 4.1 of the
\* specification defines isExpired()
ExpiredAtStart ==
    \/ startFile = NoFile
    \/ "saved_at" \notin DOMAIN startFile
    \/ "expires_in" \notin DOMAIN startFile
    \/ startClock >= startFile.saved_at + startFile.expires_in * 1000 - 300000

Rank(p) ==
    CASE p = "idle"         -> 0
      [] p = "preRefresh"   -> 1
      [] p = "request"      -> 2
      [] p = "retryRefresh" -> 3
      [] p = "retry"        -> 4
      [] p = "done"         -> 5

-----------------------------------------------------------------------------
(* C1 *)

\* C1 as stated: a call sends at most one refresh to the token endpoint and
\* at most two resource requests (the request and one retry).
C1_AtMostOneRefresh ==
    NumTo("token") <= 1 /\ NumTo("resource") <= 2

C1_Requests ==
    Kinds \in { <<>>, <<"token">>, <<"token", "resource">>,
                <<"token", "resource", "token">>,
                <<"token", "resource", "token", "resource">>,
                <<"resource">>, <<"resource", "token">>,
                <<"resource", "token", "resource">> }

C1_Progress ==
    pc # "done" =>
        /\ Rank(pc') >= Rank(pc)
        /\ (http' # http \/ responses' # responses) => Rank(pc') > Rank(pc)

\* C1 (amended): a call sends at most two refreshes, at most one before the
\* resource request (the record was expired) and at most one after it (the
\* request was answered 401), and at most one retry; every request sent and
\* every response received moves the call strictly forward through its five
\* stages, so it ends after at most four requests and never loops.
C1_BoundedRefreshAndRetry ==
    [](C1_Requests /\ Len(responses) <= Len(http)) /\ [][C1_Progress]_vars

\* a call that refreshed twice and retried once has ended
C1_Witness ==
    pc = "done" /\ Kinds = <<"token", "resource", "token", "resource">>

-----------------------------------------------------------------------------
(* C2 *)

\* the retry was sent and answered
RetryAnswered ==
    /\ pc = "done"
    /\ FirstResource > 0
    /\ Len(http) = FirstResource + 2
    /\ Len(responses) = FirstResource + 2

\* C2: when the request is answered 401, the refresh succeeds and the retry
\* is answered with a status that is not 2xx (here with a JSON error body),
\* the call throws FitbitApiError with the retry's status and parsed body.
C2_RetryFailureIsApiFailure ==
    (/\ RetryAnswered
     /\ ~Ok(responses[Len(responses)].status)
     /\ responses[Len(responses)].body.json)
    => /\ Threw(result, "FitbitApiError")
       /\ result.statusCode = responses[Len(responses)].status
       /\ result.errors = responses[Len(responses)].body.value

-----------------------------------------------------------------------------
(* C3 *)

\* the request was answered 401 and the retry 2xx
RetrySucceeded ==
    /\ RetryAnswered
    /\ responses[FirstResource].status = 401
    /\ Ok(responses[Len(responses)].status)

\* C3 as stated: when the request is answered 401 and the retry 200, the
\* call sent exactly request, refresh, retry, the retry carried the access
\* token that refresh returned, and the call returns the retry's parsed body.
C3_ExactlyOneRefresh ==
    RetrySucceeded =>
        /\ Kinds = <<"resource", "token", "resource">>
        /\ http[3].cred = responses[2].body.value.access_token
        /\ result = Return(responses[3].body.value)

\* C3 (amended): when the request is answered 401 and the retry 2xx, the
\* call sent exactly one refresh and one retry after the request, in the
\* order request, refresh, retry, preceded by one more refresh exactly when
\* the record was expired at the start; the retry carried the access token
\* returned by the refresh that followed the 401; and the call returns the
\* retry's parsed body when that body is JSON, and throws the parse error
\* otherwise.
C3_OneRefreshAfter401 ==
    RetrySucceeded =>
        LET i == FirstResource
        IN  /\ Kinds \in { <<"resource", "token", "resource">>,
                           <<"token", "resource", "token", "resource">> }
            /\ (i = 2) <=> ExpiredAtStart
            /\ Ok(responses[i + 1].status)
            /\ http[i + 2].cred = responses[i + 1].body.value.access_token
            /\ responses[i + 2].body.json => result = Return(responses[i + 2].body.value)
            /\ ~responses[i + 2].body.json => result = SyntaxError

\* a 401, a refresh and a retry that returned its body
C3_Witness ==
    /\ RetrySucceeded
    /\ result.kind = "return"
    /\ ~ExpiredAtStart

-----------------------------------------------------------------------------
(* C4 *)

\* C4: with a record that is expired at the start of the call, the resource
\* request is sent only after exactly one refresh that the token endpoint
\* answered 2xx and that was saved to the token file, and it carries the
\* access token of that response, not the stored one; a refresh is the first
\* thing the call sends whenever the record holds a refresh token.  With a
\* record that is not expired the resource request is the first request sent
\* and carries the stored access token.
C4_RefreshBeforeRequest ==
    /\ (pc # "idle" /\ startFile # NoFile /\ ExpiredAtStart) =>
        /\ ("refresh_token" \in DOMAIN startFile) =>
               /\ Len(http) >= 1
               /\ http[1] = TokenRequest(startFile.refresh_token)
        /\ FirstResource > 0 =>
               /\ FirstResource = 2
               /\ http[1].to = "token"
               /\ Ok(responses[1].status)
               /\ http[2].cred = responses[1].body.value.access_token
               /\ http[2].cred # Get(startFile, "access_token")
        /\ pc = "request" =>
               /\ writes = 1
               /\ tokenFile # startFile
               /\ tokenFile.access_token = http[2].cred
               /\ tokenFile.saved_at >= startClock
    /\ (pc # "idle" /\ startFile # NoFile /\ ~ExpiredAtStart) =>
        /\ FirstResource = 1
        /\ http[1] = ResourceRequest(Get(startFile, "access_token"))
        /\ pc = "request" => writes = 0 /\ tokenFile = startFile

\* the record is exactly at expiry minus the buffer; the refresh has been
\* saved and the resource request is in flight
C4_Witness ==
    /\ pc = "request"
    /\ startFile # NoFile
    /\ "expires_in" \in DOMAIN startFile
    /\ startClock = startFile.saved_at + startFile.expires_in * 1000 - 300000
    /\ Len(http) = 2

-----------------------------------------------------------------------------
(* C7 *)

\* C7: a call made with no token file ends at once by throwing
\* FitbitAuthError("No tokens found"); it sends no request to either
\* endpoint and does not write the token file.
C7_AbsentRecordIsAuthRequired ==
    (pc # "idle" /\ startFile = NoFile) =>
        /\ pc = "done"
        /\ result = FitbitAuthError("No tokens found")
        /\ http = <<>>
        /\ responses = <<>>
        /\ writes = 0
        /\ tokenFile = NoFile

\* a call without a token file has ended, after an earlier clearTokens
C7_Witness ==
    pc = "done" /\ startFile = NoFile /\ nextTok > 2

-----------------------------------------------------------------------------
(* C5 *)

\* C5: when a refresh is answered 400 or 401 by the token endpoint, the call
\* throws FitbitAuthError and that refresh is the last request it sends.
C5_RejectedRefreshIsAuthFailure ==
    \A i \in 1..Len(responses) :
        (http[i].to = "token" /\ responses[i].status \in {400, 401}) =>
            /\ pc = "done"
            /\ Len(http) = i
            /\ Threw(result, "FitbitAuthError")

-----------------------------------------------------------------------------
(* C6 *)

\* C6: when the resource request is answered with a status that is neither
\* 2xx nor 401, the call throws FitbitApiError with that status and the
\* parsed body, and sends nothing after that response.
C6_OtherStatusIsApiFailure ==
    (/\ FirstResource > 0
     /\ Len(responses) >= FirstResource
     /\ ~Ok(responses[FirstResource].status)
     /\ responses[FirstResource].status # 401)
    => /\ pc = "done"
       /\ Len(http) = FirstResource
       /\ Threw(result, "FitbitApiError")
       /\ result.statusCode = responses[FirstResource].status
       /\ responses[FirstResource].body.json =>
              result.errors = responses[FirstResource].body.value

-----------------------------------------------------------------------------
(* C8 *)

\* some response was not 2xx and no later response was 2xx
FailedForGood ==
    \E i \in 1..Len(responses) :
        /\ ~Ok(responses[i].status)
        /\ \A j \in (i + 1)..Len(responses) : ~Ok(responses[j].status)

\* C8: a call that ends after a response that is not 2xx, with no later
\* 2xx response, throws FitbitAuthError or FitbitApiError: it returns no
\* value and throws nothing else.
C8_TwoErrorKinds ==
    (pc = "done" /\ FailedForGood) =>
        \/ Threw(result, "FitbitAuthError")
        \/ Threw(result, "FitbitApiError")

-----------------------------------------------------------------------------
(* C9 *)

\* the request was answered 401 and the refresh that followed failed: no
\* retry was sent
RetryRefreshFailed ==
    /\ pc = "done"
    /\ FirstResource > 0
    /\ Len(responses) >= FirstResource
    /\ responses[FirstResource].status = 401
    /\ Len(http) <= FirstResource + 1

\* C9: after a 401 on the request, a refresh that fails with an auth error
\* (no refresh token on record, or the token endpoint answering 400 or 401
\* with a JSON body) ends the call with that same FitbitAuthError, and a
\* refresh that fails in any other way (another status, a body that does
\* not parse, a failed write) ends it with FitbitAuthError("Authentication
\* failed").
C9_RetryRefreshFailureIsAuthFailure ==
    RetryRefreshFailed =>
        LET i == FirstResource
        IN  IF Len(http) = i
            THEN result = FitbitAuthError("No refresh token available")
            ELSE IF responses[i + 1].status \in {400, 401} /\ responses[i + 1].body.json
                 THEN result = FitbitAuthError("Token refresh failed")
                 ELSE result = FitbitAuthError("Authentication failed")

\* the refresh after a 401 was answered 500
C9_Witness ==
    /\ RetryRefreshFailed
    /\ Len(responses) = FirstResource + 1
    /\ responses[FirstResource + 1].status = 500
    /\ responses[FirstResource + 1].body.json

-----------------------------------------------------------------------------
(* C10 *)

\* C10: when the refresh made for an expired record is answered with a
\* status that is neither 2xx nor 400 nor 401, the call throws
\* FitbitApiError with that status and the parsed body, and sends no
\* resource request.
C10_PreRefreshFailureIsApiFailure ==
    (/\ Len(responses) >= 1
     /\ http[1].to = "token"
     /\ ~Ok(responses[1].status)
     /\ responses[1].status \notin {400, 401})
    => /\ pc = "done"
       /\ Len(http) = 1
       /\ Threw(result, "FitbitApiError")
       /\ result.statusCode = responses[1].status
       /\ responses[1].body.json => result.errors = responses[1].body.value

-----------------------------------------------------------------------------
(* C11 *)

\* the record had a refresh token when the resource request was answered: it
\* is the record of the start of the call, or the one the refresh before the
\* request saved
HadRefreshTokenAtRequest ==
    IF FirstResource = 1
    THEN HasRefreshToken(startFile)
    ELSE "refresh_token" \in DOMAIN responses[1].body.value

\* C11: a refresh attempted with no record, or with a record without a
\* refresh token, throws FitbitAuthError("No refresh token available") at
\* once and sends nothing to the token endpoint: when refreshAccessToken is
\* called by itself, when apiRequest finds the record expired, and when the
\* resource request is answered 401; and no request to the token endpoint is
\* ever sent without a refresh token.
C11_NoRefreshTokenNoRequest ==
    /\ (call.op = "refreshAccessToken" /\ ~HasRefreshToken(startFile)) =>
           /\ pc = "refreshed"
           /\ http = <<>>
           /\ result = FitbitAuthError("No refresh token available")
    /\ (/\ call.op = "apiRequest"
        /\ loadTokensOf(startFile) # null
        /\ ExpiredAtStart
        /\ ~HasRefreshToken(startFile)) =>
           /\ pc = "done"
           /\ http = <<>>
           /\ result = FitbitAuthError("No refresh token available")
    /\ (/\ call.op = "apiRequest"
        /\ FirstResource > 0
        /\ Len(responses) >= FirstResource
        /\ responses[FirstResource].status = 401
        /\ ~HadRefreshTokenAtRequest) =>
           /\ pc = "done"
           /\ Len(http) = FirstResource
           /\ result = FitbitAuthError("No refresh token available")
    /\ \A i \in 1..Len(http) : http[i].to = "token" => http[i].cred # 0

\* refreshAccessToken called with no token file has thrown
C11_Witness ==
    /\ pc = "refreshed"
    /\ call.op = "refreshAccessToken"
    /\ startFile = NoFile
    /\ result.kind = "throw"

-----------------------------------------------------------------------------
(* C12 *)

\* the fields of a credential record that come from the token endpoint
RecordFields == {"access_token", "refresh_token", "token_type", "expires_in",
                 "scope", "user_id"}

\* a record that loads holds the fields of one token set: the provider issues
\* token set n with access token n and, if any, refresh token n
WholeRecord ==
    loadTokens # null =>
        /\ "saved_at" \in DOMAIN tokenFile
        /\ "refresh_token" \in DOMAIN tokenFile =>
               tokenFile.refresh_token = tokenFile.access_token

\* a step that completes a write leaves exactly the fields of the response
\* just received, and the time of the write
WritesNewTokenSet ==
    writes' = writes + 1 =>
        LET new == responses'[Len(responses')].body.value
        IN  /\ Ok(responses'[Len(responses')].status)
            /\ DOMAIN tokenFile' = ((DOMAIN new) \cap RecordFields) \cup {"saved_at"}
            /\ \A f \in (DOMAIN new) \cap RecordFields : tokenFile'[f] = new[f]
            /\ tokenFile'.saved_at = clock'

\* C12: the write of a successful refresh leaves in the token file exactly
\* the fields of the token endpoint's response and saved_at, the time of the
\* write; nothing of the record before is kept, so a response without a
\* refresh token leaves a record without one; and a record that loads is at
\* all times one whole token set.
C12_RefreshOverwrites ==
    []WholeRecord /\ [][WritesNewTokenSet]_vars

\* a refresh whose response had no refresh token replaced a record that had
\* one
C12_Witness ==
    /\ writes = 1
    /\ HasRefreshToken(startFile)
    /\ loadTokens # null
    /\ ~HasRefreshToken(tokenFile)

-----------------------------------------------------------------------------
(* C16 *)

\* C16: when the write of a refresh fails, the call ends there by throwing:
\* the refresh is the last request it sent, no resource request or retry
\* follows.  The refresh before the request throws the write error itself,
\* the refresh after a 401 throws FitbitAuthError("Authentication failed").
C16_WriteFailureAborts ==
    writeFailures > 0 =>
        /\ writeFailures = 1
        /\ pc = "done"
        /\ result.kind = "throw"
        /\ Len(responses) = Len(http)
        /\ http[Len(http)].to = "token"
        /\ Ok(responses[Len(http)].status)
        /\ result = IF FirstResource = 0
                    THEN WriteError
                    ELSE FitbitAuthError("Authentication failed")

\* the write of the refresh after a 401 failed
C16_Witness ==
    /\ writeFailures = 1
    /\ FirstResource > 0
    /\ pc = "done"

-----------------------------------------------------------------------------
(* C17 *)

\* C17 as stated: a 2xx response whose body is not JSON ends the call with
\* the parse error itself.
C17_ParseFailureAsIs ==
    \A i \in 1..Len(responses) :
        (Ok(responses[i].status) /\ ~responses[i].body.json) =>
            /\ pc = "done"
            /\ result = SyntaxError

\* C17 (amended): a 2xx response whose body is not JSON ends the call, with
\* the parse error itself when it is the resource response, the retried
\* resource response or the response to the refresh made before the request,
\* and with FitbitAuthError("Authentication failed") when it is the response
\* to the refresh made after a 401.
C17_ParseFailureAsIsButAfter401 ==
    \A i \in 1..Len(responses) :
        (Ok(responses[i].status) /\ ~responses[i].body.json) =>
            /\ pc = "done"
            /\ Len(http) = i
            /\ result = IF http[i].to = "token" /\ FirstResource > 0
                        THEN FitbitAuthError("Authentication failed")
                        ELSE SyntaxError

\* the retry was answered 200 with a body that is not JSON
C17_Witness ==
    /\ RetrySucceeded
    /\ ~responses[Len(responses)].body.json
    /\ result = SyntaxError

-----------------------------------------------------------------------------
(* C19 *)

\* the call ended because the token endpoint rejected a refresh, or because
\* no refresh token was on record
RefreshRejected ==
    /\ pc = "done"
    /\ \/ /\ http # <<>>
          /\ Len(responses) = Len(http)
          /\ http[Len(http)].to = "token"
          /\ ~Ok(responses[Len(http)].status)
       \/ result = FitbitAuthError("No refresh token available")

\* the token endpoint's 2xx responses with a JSON body, so far
OkRefreshes ==
    {i \in 1..Len(responses) :
        http[i].to = "token" /\ Ok(responses[i].status) /\ responses[i].body.json}

\* C19 as stated: a call that ends because a refresh was rejected, or for
\* want of a refresh token, leaves the token file as it was before the call.
C19_RejectedRefreshLeavesRecord ==
    RefreshRejected => tokenFile = startFile

\* C19 (amended): a call that ends because a refresh was rejected, or for
\* want of a refresh token, leaves the token file as it was before that
\* refresh: as it was before the call, unless the call had refreshed before
\* its resource request, and then as that refresh saved it.  In every call
\* the token file is written once for each 2xx refresh response and never
\* otherwise.
C19_RejectedRefreshWritesNothing ==
    /\ call.op = "apiRequest" => writes + writeFailures = Cardinality(OkRefreshes)
    /\ RefreshRejected =>
        IF FirstResource = 2
        THEN /\ writes = 1
             /\ tokenFile = [f \in (DOMAIN responses[1].body.value) \cup {"saved_at"} |->
                                IF f = "saved_at" THEN tokenFile.saved_at
                                ELSE responses[1].body.value[f]]
        ELSE /\ writes = 0
             /\ tokenFile = startFile

\* the refresh after a 401 was rejected
C19_Witness ==
    /\ RefreshRejected
    /\ FirstResource = 1
    /\ Len(http) = 2
    /\ responses[2].status = 400

-----------------------------------------------------------------------------
(* C13 *)

\* isTokenExpired has just been applied to the stored record
ExpiredAsked == pc = "stored" /\ call.op = "isTokenExpired"

\* C13 as stated: isTokenExpired is true when there is no record, when
\* saved_at or expires_in is absent, and when now >= saved_at +
\* expires_in*1000 - 300000, and false otherwise.
C13_ExpiredIffAbsentOrPast ==
    ExpiredAsked =>
        LET rec == call.arg
            now == startClock
        IN  result = Return(\/ rec = null
                            \/ "saved_at" \notin DOMAIN rec
                            \/ "expires_in" \notin DOMAIN rec
                            \/ now >= rec.saved_at + rec.expires_in * 1000 - 300000)

\* C13 (amended): isTokenExpired is true when there is no record, when
\* saved_at or expires_in is absent or 0, and when now >= saved_at +
\* expires_in*1000 - 300000, and false otherwise; when it is false the record
\* has both fields and now is strictly before the buffered expiry.
C13_ExpiredIffFalsyOrPast ==
    ExpiredAsked =>
        LET rec == call.arg
            now == startClock
        IN  /\ result = Return(\/ rec = null
                               \/ "saved_at" \notin DOMAIN rec
                               \/ "expires_in" \notin DOMAIN rec
                               \/ rec.saved_at = 0
                               \/ rec.expires_in = 0
                               \/ now >= rec.saved_at + rec.expires_in * 1000 - 300000)
            /\ result = Return(FALSE) =>
                   /\ rec # null
                   /\ "saved_at" \in DOMAIN rec
                   /\ "expires_in" \in DOMAIN rec
                   /\ now < rec.saved_at + rec.expires_in * 1000 - 300000

\* asked at the very millisecond of the buffered expiry
C13_Witness ==
    /\ ExpiredAsked
    /\ call.arg # null
    /\ "saved_at" \in DOMAIN call.arg
    /\ Get(call.arg, "expires_in") > 0
    /\ startClock = call.arg.saved_at + call.arg.expires_in * 1000 - 300000
    /\ result = Return(TRUE)

-----------------------------------------------------------------------------
(* C14 *)

\* loadTokens has just returned, and the call before it was a saveTokens
\* that returned
LoadAfterSave ==
    /\ pc = "stored"
    /\ call.op = "loadTokens"
    /\ lastCall.call.op = "saveTokens"
    /\ lastCall.result.kind = "return"

\* C14: loadTokens right after saveTokens(tokens) returns a record whose six
\* token fields are those of tokens (a field tokens lacks is lacking), that
\* has no other field but saved_at, and whose saved_at is at or after the
\* time saveTokens was called, whatever the file held before.
C14_SaveThenLoad ==
    LoadAfterSave =>
        LET input == lastCall.call.arg
            rec == result.value
        IN  /\ result.kind = "return"
            /\ rec # null
            /\ \A f \in RecordFields :
                   /\ f \in DOMAIN rec <=> f \in DOMAIN input
                   /\ f \in DOMAIN rec => rec[f] = input[f]
            /\ DOMAIN rec \subseteq RecordFields \cup {"saved_at"}
            /\ "saved_at" \in DOMAIN rec
            /\ rec.saved_at >= lastCall.startClock

\* a token set with a seventh field and a saved_at of its own was saved over
\* a record and loaded
C14_Witness ==
    /\ LoadAfterSave
    /\ HasRefreshToken(lastCall.startFile)
    /\ "id_token" \in DOMAIN lastCall.call.arg
    /\ result.value # null

-----------------------------------------------------------------------------
(* C15 *)

\* loadTokens has just returned, and the call before it was clearTokens
LoadAfterClear ==
    /\ pc = "stored"
    /\ call.op = "loadTokens"
    /\ lastCall.call.op = "clearTokens"

\* C15 as stated: clearTokens never throws, and loadTokens after clearTokens
\* returns null.
C15_ClearThenLoadIsAbsent ==
    /\ (pc = "stored" /\ call.op = "clearTokens") => result.kind = "return"
    /\ LoadAfterClear => result = Return(null)

\* C15 (amended): clearTokens never throws, with or without a token file;
\* after it the file is gone, or, if deleting it failed, is the file it found;
\* loadTokens after clearTokens returns null, or the record clearTokens found
\* and could not delete.
C15_ClearThenLoadIsAbsentOrUndeleted ==
    /\ (pc = "stored" /\ call.op = "clearTokens") =>
           /\ result.kind = "return"
           /\ tokenFile = IF writeFailures = 0 THEN NoFile ELSE startFile
    /\ LoadAfterClear =>
           /\ result.kind = "return"
           /\ result.value \in {null, loadTokensOf(lastCall.startFile)}
           /\ tokenFile = NoFile => result.value = null

\* clearTokens deleted a record, and loadTokens after it returned null
C15_Witness ==
    /\ LoadAfterClear
    /\ loadTokensOf(lastCall.startFile) # null
    /\ result = Return(null)
    /\ tokenFile = NoFile

-----------------------------------------------------------------------------
(* C18 *)

\* the callback sent the exchange and the exchange failed: the token endpoint
\* answered with a status outside 2xx or with a body that is not JSON
ExchangeFailed ==
    /\ pc = "replied"
    /\ http # <<>>
    /\ ~(Ok(responses[1].status) /\ responses[1].body.json)

\* C18: a callback with an error parameter or without a code is answered 400
\* without an exchange, a callback whose exchange fails is answered 500, and
\* in the three cases the token file is as the callback found it; the token
\* file is written only after the token endpoint answered the exchange 2xx
\* with a token set.
C18_CallbackWritesAfterExchange ==
    /\ (pc = "replied" /\ (call.arg.error # "" \/ call.arg.code = 0)) =>
           /\ result = Reply(400)
           /\ http = <<>>
           /\ tokenFile = startFile
           /\ writes + writeFailures = 0
    /\ ExchangeFailed =>
           /\ result = Reply(500)
           /\ tokenFile = startFile
           /\ writes + writeFailures = 0
    /\ pc = "exchanging" =>
           /\ tokenFile = startFile
           /\ writes + writeFailures = 0
    /\ writes + writeFailures > 0 =>
           /\ pc = "replied"
           /\ Ok(responses[1].status)
           /\ responses[1].body.json

\* the exchange was refused while a record was on file
C18_Witness ==
    /\ ExchangeFailed
    /\ responses[1].status = 400
    /\ loadTokensOf(startFile) # null
    /\ result = Reply(500)

-----------------------------------------------------------------------------
(* C20 *)

\* the refresh token the rotating provider accepts
Accepted == nextTok - 1

StartedAcceptedNoWriteFailure ==
    /\ call.op = "apiRequest"
    /\ HasRefreshToken(startFile)
    /\ startFile.refresh_token = Accepted - Cardinality(OkRefreshes)
    /\ writeFailures = 0

-----------------------------------------------------------------------------
(* C21 *)

\* the code of this exchange was produced by the authorization URL of a visit
\* to the start page that had taken place when the callback arrived: visit v
\* kept verifier v, and its URL yields code v
CodeOfAVisit(request) ==
    /\ request.cred >= 1
    /\ request.cred <= request.code_verifier

\* C21: the code_verifier sent in the exchange of an authorization code is
\* the verifier of the visit whose authorization URL produced that code,
\* and is never null.
C21_VerifierOfTheCode ==
    \A i \in 1..Len(http) :
        (call.op = "callback" /\ CodeOfAVisit(http[i])) =>
            /\ http[i].code_verifier # 0
            /\ http[i].code_verifier = http[i].cred

====
